---- MODULE Spec2Model ----
(***************************************************************************)
(* Model of src/main.go: the fitness tracker computing distance, mean      *)
(* speed and calories of Running, Walking and Swimming sessions, and the   *)
(* main program printing three reports.                                    *)
(*                                                                         *)
(* Numbers.  Go's int (64 bit, two's complement, wrapping) and float64 are *)
(* modelled over arbitrary-precision integers, held as little-endian       *)
(* sequences of base-10000 limbs because the model checker's own integers  *)
(* are 32 bit.  A float64 is an exact rational n/d, or +Inf, -Inf or NaN   *)
(* with the IEEE-754 rules for division by zero and for arithmetic on      *)
(* infinities; the rounding of float64 to 53 bits is not modelled.         *)
(***************************************************************************)
EXTENDS Integers, Sequences, FiniteSets, TLC

(* ---------------- natural numbers of arbitrary size -------------------- *)

Base == 10000

RECURSIVE Norm(_)
Norm(a) == IF a = <<>> THEN <<>>
           ELSE IF a[Len(a)] = 0 THEN Norm(SubSeq(a, 1, Len(a) - 1))
           ELSE a

Limb(a, i) == IF i <= Len(a) THEN a[i] ELSE 0

RECURSIVE NatOf(_)
NatOf(k) == IF k = 0 THEN <<>> ELSE <<k % Base>> \o NatOf(k \div Base)

RECURSIVE NAddC(_, _, _, _)
NAddC(a, b, i, c) ==
    IF i > Len(a) /\ i > Len(b)
    THEN (IF c = 0 THEN <<>> ELSE <<c>>)
    ELSE LET s == Limb(a, i) + Limb(b, i) + c
         IN  <<s % Base>> \o NAddC(a, b, i + 1, s \div Base)

NAdd(a, b) == NAddC(a, b, 1, 0)

RECURSIVE NCmpAt(_, _, _)
NCmpAt(a, b, i) ==
    IF i = 0 THEN 0
    ELSE IF a[i] < b[i] THEN -1
    ELSE IF a[i] > b[i] THEN 1
    ELSE NCmpAt(a, b, i - 1)

NCmp(a, b) == IF Len(a) < Len(b) THEN -1
              ELSE IF Len(a) > Len(b) THEN 1
              ELSE NCmpAt(a, b, Len(a))

RECURSIVE NSubB(_, _, _, _)
NSubB(a, b, i, w) ==
    IF i > Len(a) THEN <<>>
    ELSE LET s == a[i] - Limb(b, i) - w
         IN  IF s < 0 THEN <<s + Base>> \o NSubB(a, b, i + 1, 1)
                      ELSE <<s>> \o NSubB(a, b, i + 1, 0)

\* a - b for a >= b
NSub(a, b) == Norm(NSubB(a, b, 1, 0))

RECURSIVE NMulSmallC(_, _, _, _)
NMulSmallC(a, k, i, c) ==
    IF i > Len(a) THEN (IF c = 0 THEN <<>> ELSE <<c>>)
    ELSE LET s == a[i] * k + c
         IN  <<s % Base>> \o NMulSmallC(a, k, i + 1, s \div Base)

\* a * k for one limb k
NMulSmall(a, k) == IF k = 0 THEN <<>> ELSE NMulSmallC(a, k, 1, 0)

NShift(a) == IF a = <<>> THEN <<>> ELSE <<0>> \o a

RECURSIVE NMul(_, _)
NMul(a, b) == IF a = <<>> \/ b = <<>> THEN <<>>
              ELSE NAdd(NMulSmall(b, a[1]), NShift(NMul(Tail(a), b)))

\* the largest q in lo..hi with q * b <= r (q = lo always qualifies)
RECURSIVE NQuotLimb(_, _, _, _)
NQuotLimb(r, b, lo, hi) ==
    IF lo = hi THEN lo
    ELSE LET mid == (lo + hi + 1) \div 2
         IN  IF NCmp(NMulSmall(b, mid), r) <= 0
             THEN NQuotLimb(r, b, mid, hi)
             ELSE NQuotLimb(r, b, lo, mid - 1)

\* long division of a by b > 0, from the top limb a[i] down, with the
\* quotient q and the remainder r of the limbs above i: [q, r]
RECURSIVE NDivLoop(_, _, _, _, _)
NDivLoop(a, b, i, q, r) ==
    IF i = 0 THEN [q |-> Norm(q), r |-> r]
    ELSE LET cur == Norm(<<a[i]>> \o r)
             ql  == NQuotLimb(cur, b, 0, Base - 1)
         IN  NDivLoop(a, b, i - 1, <<ql>> \o q, NSub(cur, NMulSmall(b, ql)))

NDivMod(a, b) == NDivLoop(a, b, Len(a), <<>>, <<>>)

NDiv(a, b) == NDivMod(a, b).q
NMod(a, b) == NDivMod(a, b).r

\* k^e for one limb k
RECURSIVE NPow(_, _)
NPow(k, e) == IF e = 0 THEN <<1>>
              ELSE LET h == NPow(k, e \div 2)
                   IN  IF e % 2 = 0 THEN NMul(h, h) ELSE NMulSmall(NMul(h, h), k)

(* ---------------- signed integers of arbitrary size -------------------- *)

Int_(neg, mag) == [neg |-> neg /\ mag # <<>>, mag |-> mag]
IntOf(k) == IF k < 0 THEN Int_(TRUE, NatOf(-k)) ELSE Int_(FALSE, NatOf(k))
IZero == IntOf(0)
IsZero(x) == x.mag = <<>>
INeg(x) == Int_(~x.neg, x.mag)
IMul(x, y) == Int_(x.neg # y.neg, NMul(x.mag, y.mag))
IAdd(x, y) ==
    IF x.neg = y.neg THEN Int_(x.neg, NAdd(x.mag, y.mag))
    ELSE IF NCmp(x.mag, y.mag) >= 0 THEN Int_(x.neg, NSub(x.mag, y.mag))
    ELSE Int_(y.neg, NSub(y.mag, x.mag))
ISign(x) == IF IsZero(x) THEN 0 ELSE IF x.neg THEN -1 ELSE 1
ICmp(x, y) == ISign(IAdd(x, INeg(y)))

(* ---------------- Go int: 64 bit, wrapping ------------------------------ *)

IntBits == 64

\* 2^64 and 2^63
IntModulus == NPow(2, IntBits)
IntHalf    == NPow(2, IntBits - 1)

\* the value of a mathematical integer x once stored in a Go int
WrapInt(x) ==
    LET r == NMod(x.mag, IntModulus)
        u == IF x.neg /\ r # <<>> THEN NSub(IntModulus, r) ELSE r
    IN  IF NCmp(u, IntHalf) >= 0
        THEN Int_(TRUE, NSub(IntModulus, u))
        ELSE Int_(FALSE, u)

\* a * b on Go ints
IntMul(a, b) == WrapInt(IMul(a, b))

(* ---------------- float64 ---------------------------------------------- *)

\* the rational n / d, d > 0, with the common factors Base cancelled
RECURSIVE Fin(_, _)
Fin(n, d) == IF n.mag # <<>> /\ n.mag[1] = 0 /\ d[1] = 0
             THEN Fin(Int_(n.neg, Tail(n.mag)), Tail(d))
             ELSE [cls |-> "fin", n |-> n, d |-> d]
Inf(neg)  == [cls |-> "inf", n |-> IF neg THEN IntOf(-1) ELSE IntOf(1), d |-> <<>>]
NaN       == [cls |-> "nan", n |-> IZero, d |-> <<>>]

\* the decimal literal k / scale, and the conversion float64(i)
Lit(k, scale) == Fin(IntOf(k), NatOf(scale))
FromInt(i) == Fin(i, <<1>>)
FZero == Lit(0, 1)

IsFin(x) == x.cls = "fin"
IsNaN(x) == x.cls = "nan"
IsInf(x) == x.cls = "inf"
FSign(x) == ISign(x.n)

FMul(x, y) ==
    IF IsNaN(x) \/ IsNaN(y) THEN NaN
    ELSE IF IsFin(x) /\ IsFin(y) THEN Fin(IMul(x.n, y.n), NMul(x.d, y.d))
    ELSE IF FSign(x) = 0 \/ FSign(y) = 0 THEN NaN
    ELSE Inf(FSign(x) # FSign(y))

FDiv(x, y) ==
    IF IsNaN(x) \/ IsNaN(y) THEN NaN
    ELSE IF IsInf(x) THEN (IF IsInf(y) THEN NaN ELSE Inf((FSign(x) < 0) # (FSign(y) < 0)))
    ELSE IF IsInf(y) THEN FZero
    ELSE IF FSign(y) = 0 THEN (IF FSign(x) = 0 THEN NaN ELSE Inf(FSign(x) < 0))
    ELSE Fin(IMul(x.n, Int_(y.n.neg, y.d)), NMul(x.d, y.n.mag))

FAdd(x, y) ==
    IF IsNaN(x) \/ IsNaN(y) THEN NaN
    ELSE IF IsInf(x) THEN (IF IsInf(y) /\ FSign(x) # FSign(y) THEN NaN ELSE x)
    ELSE IF IsInf(y) THEN y
    ELSE Fin(IAdd(IMul(x.n, Int_(FALSE, y.d)), IMul(y.n, Int_(FALSE, x.d))), NMul(x.d, y.d))

\* math.Pow(x, 2)
Pow2(x) == FMul(x, x)

\* x == y on float64 (NaN equals nothing)
FEq(x, y) ==
    /\ ~IsNaN(x) /\ ~IsNaN(y)
    /\ x.cls = y.cls
    /\ IF IsFin(x) THEN IMul(x.n, Int_(FALSE, y.d)) = IMul(y.n, Int_(FALSE, x.d))
                   ELSE FSign(x) = FSign(y)

\* x <= y for finite x, y
FLeq(x, y) == ICmp(IMul(x.n, Int_(FALSE, y.d)), IMul(y.n, Int_(FALSE, x.d))) <= 0

\* x and y are the same float64 value (as a copy of a value is)
FSame(x, y) == FEq(x, y) \/ (IsNaN(x) /\ IsNaN(y))


\* fmt's %.<digits>f: the nearest multiple of 10^-digits (ties to even), or
\* the text of an infinity or of NaN
FormatF(x, digits) ==
    IF IsNaN(x) THEN [text |-> "NaN", units |-> IZero]
    ELSE IF IsInf(x) THEN [text |-> IF FSign(x) < 0 THEN "-Inf" ELSE "+Inf", units |-> IZero]
    ELSE LET num  == NMul(x.n.mag, NPow(10, digits))
             qr   == NDivMod(num, x.d)
             c    == NCmp(NMulSmall(qr.r, 2), x.d)
             up   == c > 0 \/ (c = 0 /\ Limb(qr.q, 1) % 2 = 1)
             q    == IF up THEN NAdd(qr.q, <<1>>) ELSE qr.q
         IN  [text |-> "number", units |-> Int_(x.n.neg, q)]

(* ---------------- time.Duration ---------------------------------------- *)

\* nanoseconds
Second == IntOf(1000000000)
Minute == IMul(IntOf(60), Second)
Hour   == IMul(IntOf(60), Minute)

Hours(d)   == FDiv(FromInt(d), FromInt(Hour))
Minutes(d) == FDiv(FromInt(d), FromInt(Minute))

(* ---------------- constants of the program ------------------------------ *)

MInKm      == Lit(1000, 1)
MinInHours == Lit(60, 1)
LenStep    == Lit(65, 100)
CmInM      == Lit(100, 1)

CaloriesMeanSpeedMultiplier == Lit(18, 1)
CaloriesMeanSpeedShift      == Lit(179, 100)

CaloriesWeightMultiplier      == Lit(35, 1000)
CaloriesSpeedHeightMultiplier == Lit(29, 1000)
KmHInMsec                     == Lit(278, 1000)

SwimmingLenStep                  == Lit(138, 100)
SwimmingCaloriesMeanSpeedShift   == Lit(11, 10)
SwimmingCaloriesWeightMultiplier == Lit(2, 1)

(* ---------------- Training ---------------------------------------------- *)

\* a Training struct
Training(label, action, lenStep, duration, weight) ==
    [TrainingType |-> label, Action |-> action, LenStep |-> lenStep,
     Duration |-> duration, Weight |-> weight]

InfoMessage(label, duration, distance, speed, calories) ==
    [TrainingType |-> label, Duration |-> duration, Distance |-> distance,
     Speed |-> speed, Calories |-> calories]

Training_distance(t) == FDiv(FMul(FromInt(t.Action), t.LenStep), MInKm)

\* meanSpeed without the check of a zero duration
Training_meanSpeed_NoGuard(t) == FDiv(Training_distance(t), Hours(t.Duration))

Training_meanSpeed(t) ==
    IF FEq(Hours(t.Duration), FZero)
    THEN FZero
    ELSE LET durationInHours == Hours(t.Duration)
         IN  FDiv(Training_distance(t), durationInHours)

Training_Calories(t) == FZero

Training_TrainingInfo(t) ==
    InfoMessage(t.TrainingType, t.Duration, Training_distance(t),
                Training_meanSpeed(t), Training_Calories(t))

(* ---------------- InfoMessage.String ------------------------------------ *)

Line(label, value, unit) == [label |-> label, value |-> value, unit |-> unit]
Text(str) == [text |-> str, units |-> IZero]

\* the five lines of the report, in the order of the format string (the
\* Russian texts of the source are written in English, strings being ASCII)
InfoMessage_String(i) ==
    << Line("Training type", Text(i.TrainingType), ""),
       Line("Duration", FormatF(Minutes(i.Duration), 0), "min"),
       Line("Distance", FormatF(i.Distance, 2), "km"),
       Line("Avg. speed", FormatF(i.Speed, 2), "km/h"),
       Line("Calories burned", FormatF(i.Calories, 2), "") >>

(* ---------------- Running ------------------------------------------------ *)

\* a Running struct embeds a Training
Running(t) == [Training |-> t]

\* Calories without the conversion of hours to minutes
Running_Calories_NoMinutes(r) ==
    FMul(FDiv(FMul(FAdd(FMul(CaloriesMeanSpeedMultiplier, Training_meanSpeed(r.Training)),
                        CaloriesMeanSpeedShift),
                   r.Training.Weight),
              MInKm),
         Hours(r.Training.Duration))

Running_Calories(r) ==
    FMul(FMul(FDiv(FMul(FAdd(FMul(CaloriesMeanSpeedMultiplier, Training_meanSpeed(r.Training)),
                             CaloriesMeanSpeedShift),
                        r.Training.Weight),
                   MInKm),
              Hours(r.Training.Duration)),
         MinInHours)

\* TrainingInfo that keeps the Calories of the embedded Training
Running_TrainingInfo_BaseCalories(r) == Training_TrainingInfo(r.Training)

Running_TrainingInfo(r) ==
    LET info == Training_TrainingInfo(r.Training)
    IN  [info EXCEPT !.Calories = Running_Calories(r)]

(* ---------------- Walking ------------------------------------------------ *)

Walking(t, height) == [Training |-> t, Height |-> height]

\* Calories with the height left in centimetres
Walking_Calories_HeightInCm(w) ==
    LET speedInMsec == FMul(Training_meanSpeed(w.Training), KmHInMsec)
    IN  FMul(FMul(FAdd(FMul(CaloriesWeightMultiplier, w.Training.Weight),
                       FMul(FMul(FDiv(Pow2(speedInMsec), w.Height),
                                 CaloriesSpeedHeightMultiplier),
                            w.Training.Weight)),
                  Hours(w.Training.Duration)),
             MinInHours)

Walking_Calories(w) ==
    LET heightInM   == FDiv(w.Height, CmInM)
        speedInMsec == FMul(Training_meanSpeed(w.Training), KmHInMsec)
    IN  FMul(FMul(FAdd(FMul(CaloriesWeightMultiplier, w.Training.Weight),
                       FMul(FMul(FDiv(Pow2(speedInMsec), heightInM),
                                 CaloriesSpeedHeightMultiplier),
                            w.Training.Weight)),
                  Hours(w.Training.Duration)),
             MinInHours)

Walking_TrainingInfo(w) ==
    LET info == Training_TrainingInfo(w.Training)
    IN  [info EXCEPT !.Calories = Walking_Calories(w)]

(* ---------------- Swimming ----------------------------------------------- *)

Swimming(t, lengthPool, countPool) ==
    [Training |-> t, LengthPool |-> lengthPool, CountPool |-> countPool]

Swimming_meanSpeed(s) ==
    FDiv(FDiv(FromInt(IntMul(s.LengthPool, s.CountPool)), MInKm), Hours(s.Training.Duration))

\* Calories without the check of a zero duration
Swimming_Calories_NoGuard(s) ==
    FMul(FMul(FMul(FAdd(Swimming_meanSpeed(s), SwimmingCaloriesMeanSpeedShift),
                   SwimmingCaloriesWeightMultiplier),
              s.Training.Weight),
         Hours(s.Training.Duration))

Swimming_Calories(s) ==
    IF s.Training.Duration = IZero
    THEN FZero
    ELSE FMul(FMul(FMul(FAdd(Swimming_meanSpeed(s), SwimmingCaloriesMeanSpeedShift),
                        SwimmingCaloriesWeightMultiplier),
                   s.Training.Weight),
              Hours(s.Training.Duration))

\* TrainingInfo with the distance taken from the pool as the speed is
Swimming_TrainingInfo_PoolDistance(s) ==
    InfoMessage(s.Training.TrainingType, s.Training.Duration,
                FDiv(FromInt(IntMul(s.LengthPool, s.CountPool)), MInKm),
                Swimming_meanSpeed(s), Swimming_Calories(s))

Swimming_TrainingInfo(s) ==
    InfoMessage(s.Training.TrainingType, s.Training.Duration,
                Training_distance(s.Training), Swimming_meanSpeed(s), Swimming_Calories(s))

(* ---------------- types, method sets and the interface ------------------- *)

Types == {"Training", "InfoMessage", "Running", "Walking", "Swimming"}

\* the methods a type declares itself, as <<name, result type>>
Declared(T) ==
    CASE T = "Training"    -> {<<"distance", "float64">>, <<"meanSpeed", "float64">>,
                               <<"Calories", "float64">>, <<"TrainingInfo", "InfoMessage">>}
      [] T = "InfoMessage" -> {<<"String", "string">>}
      [] T = "Running"     -> {<<"Calories", "float64">>, <<"TrainingInfo", "InfoMessage">>}
      [] T = "Walking"     -> {<<"Calories", "float64">>, <<"TrainingInfo", "InfoMessage">>}
      [] T = "Swimming"    -> {<<"meanSpeed", "float64">>, <<"Calories", "float64">>,
                               <<"TrainingInfo", "InfoMessage">>}

\* the struct types a type embeds
Embedded(T) == IF T \in {"Running", "Walking", "Swimming"} THEN {"Training"} ELSE {}

\* the method set of a type: its own methods and those promoted from the
\* embedded struct
MethodSet(T) == Declared(T) \cup UNION {Declared(E) : E \in Embedded(T)}

CaloriesCalculator == {<<"Calories", "float64">>, <<"TrainingInfo", "InfoMessage">>}

\* T can be assigned to a CaloriesCalculator
Implements(T) == CaloriesCalculator \subseteq MethodSet(T)

\* a value together with its type, as an interface value holds it
Value(T, v) == [type |-> T, value |-> v]

\* training.Calories() and training.TrainingInfo() on a CaloriesCalculator:
\* the method of the dynamic type
Calories(training) ==
    CASE training.type = "Training" -> Training_Calories(training.value)
      [] training.type = "Running"  -> Running_Calories(training.value)
      [] training.type = "Walking"  -> Walking_Calories(training.value)
      [] training.type = "Swimming" -> Swimming_Calories(training.value)

TrainingInfo(training) ==
    CASE training.type = "Training" -> Training_TrainingInfo(training.value)
      [] training.type = "Running"  -> Running_TrainingInfo(training.value)
      [] training.type = "Walking"  -> Walking_TrainingInfo(training.value)
      [] training.type = "Swimming" -> Swimming_TrainingInfo(training.value)

ReadData(training) == InfoMessage_String(TrainingInfo(training))

(* ---------------- the sessions built by main ----------------------------- *)

Minutes_(k) == IMul(IntOf(k), Minute)

swimming == Swimming(Training("Swimming", IntOf(2000), SwimmingLenStep, Minutes_(90), Lit(85, 1)),
                     IntOf(50), IntOf(5))

walking == Walking(Training("Walking", IntOf(20000), LenStep,
                            IAdd(IMul(IntOf(3), Hour), Minutes_(45)), Lit(85, 1)),
                   Lit(185, 1))

running == Running(Training("Running", IntOf(5000), LenStep, Minutes_(30), Lit(85, 1)))

\* fmt.Println(s): the text and a line break
EmptyLine == Line("", Text(""), "")
Println(out, s) == Append(out, s \o <<EmptyLine>>)

(* ---------------- the sessions ReadData is applied to -------------------- *)

MaxReps      == 1
MaxHalfHours == 3
MaxLaps      == 1

Actions   == {IntOf(5000 * k) : k \in 0..MaxReps} \cup {IntOf(2000), IntOf(20000)}
Durations == {Minutes_(30 * k) : k \in 0..MaxHalfHours}
               \cup {Minutes_(225), IMul(IntOf(100), Second)}
Weights   == {Lit(85, 1)}
Heights   == {Lit(185, 1)}
LengthPools == {IntOf(50), Int_(FALSE, NPow(2, 32))}
CountPools  == {IntOf(5 * k) : k \in 1..MaxLaps}
                 \cup {Int_(FALSE, NPow(2, 31)), Int_(FALSE, NPow(2, 32))}

Trainings(label, lenStep) ==
    {Training(label, a, lenStep, d, w) : a \in Actions, d \in Durations, w \in Weights}

Inputs ==
    {Value("Training", t) : t \in Trainings("Running", LenStep)}
      \cup {Value("Running", Running(t)) : t \in Trainings("Running", LenStep)}
      \cup {Value("Walking", Walking(t, h)) : t \in Trainings("Walking", LenStep), h \in Heights}
      \cup {Value("Swimming", Swimming(t, l, c)) :
               t \in Trainings("Swimming", SwimmingLenStep), l \in LengthPools, c \in CountPools}
      \cup {Value("InfoMessage", InfoMessage("", IZero, FZero, FZero, FZero))}

(* ---------------- state --------------------------------------------------- *)

VARIABLES
    arg,     \* the value a caller outside main passes to ReadData
    info,    \* the InfoMessage that call got from TrainingInfo
    text,    \* the string that call returned, <<>> before the call
    pc,      \* the number of statements of main's output done
    stdout   \* what main has printed

vars == <<arg, info, text, pc, stdout>>

Init ==
    /\ arg \in Inputs
    /\ info = InfoMessage("", IZero, FZero, FZero, FZero)
    /\ text = <<>>
    /\ pc = 0
    /\ stdout = <<>>

\* the call ReadData(arg): it compiles for the values whose type implements
\* CaloriesCalculator
Call ==
    /\ text = <<>>
    /\ Implements(arg.type)
    /\ info' = TrainingInfo(arg)
    /\ text' = ReadData(arg)
    /\ UNCHANGED <<arg, pc, stdout>>

\* main printing the walking session first
PrintSwimming_WalkingFirst ==
    /\ pc = 0
    /\ stdout' = Println(stdout, ReadData(Value("Walking", walking)))
    /\ pc' = 1
    /\ UNCHANGED <<arg, info, text>>

\* fmt.Println(ReadData(swimming))
PrintSwimming ==
    /\ pc = 0
    /\ stdout' = Println(stdout, ReadData(Value("Swimming", swimming)))
    /\ pc' = 1
    /\ UNCHANGED <<arg, info, text>>

\* fmt.Println(ReadData(walking))
PrintWalking ==
    /\ pc = 1
    /\ stdout' = Println(stdout, ReadData(Value("Walking", walking)))
    /\ pc' = 2
    /\ UNCHANGED <<arg, info, text>>

\* fmt.Println(ReadData(running))
PrintRunning ==
    /\ pc = 2
    /\ stdout' = Println(stdout, ReadData(Value("Running", running)))
    /\ pc' = 3
    /\ UNCHANGED <<arg, info, text>>

Next ==
    \/ Call
    \/ PrintSwimming
    \/ PrintWalking
    \/ PrintRunning

Spec == Init /\ [][Next]_vars

(* ---------------- properties ---------------------------------------------- *)

Variants == {"Running", "Walking", "Swimming"}

\* ReadData(arg) has returned
Called == text # <<>>

\* the Training struct of arg, embedded or not
Base_(v) == IF v.type = "Training" THEN v.value ELSE v.value.Training

ZeroDuration == Base_(arg).Duration = IZero

\* C1: for every Swimming session of duration zero, Swimming's meanSpeed is 0
\* and so is the Speed of the summary its TrainingInfo produces.
C1_SwimmingZeroDurationSpeedIsZero ==
    (Called /\ arg.type = "Swimming" /\ ZeroDuration)
        => /\ FEq(Swimming_meanSpeed(arg.value), FZero)
           /\ FEq(info.Speed, FZero)

\* C2: for every Running or Walking session of duration zero, the base
\* meanSpeed is 0, whatever the repetitions and the step length are.
C2_BaseZeroDurationSpeedIsZero ==
    (Called /\ arg.type \in {"Running", "Walking"} /\ ZeroDuration)
        => /\ FEq(Training_meanSpeed(arg.value.Training), FZero)
           /\ FEq(info.Speed, FZero)

C2_Witness ==
    /\ Called /\ arg.type = "Walking" /\ ZeroDuration
    /\ FSign(Training_distance(arg.value.Training)) > 0

\* C3: for every Swimming session of duration zero, Calories is 0, whatever
\* Swimming's meanSpeed yields for that session (an infinity or NaN).
C3_SwimmingZeroDurationCaloriesIsZero ==
    (Called /\ arg.type = "Swimming" /\ ZeroDuration)
        => /\ FEq(Swimming_Calories(arg.value), FZero)
           /\ FEq(info.Calories, FZero)

C3_Witness ==
    /\ Called /\ arg.type = "Swimming" /\ ZeroDuration
    /\ ~IsFin(Swimming_meanSpeed(arg.value))
    /\ FEq(info.Calories, FZero)

\* C4: for every session of positive duration, the mean speed is
\* distance / hours for Running and Walking, and
\* LengthPool * CountPool / 1000 / hours for Swimming, the product being
\* that of the integers, however large.
C4_MeanSpeedOfPositiveDuration ==
    (Called /\ arg.type \in Variants /\ ~ZeroDuration)
        => LET hours == Hours(Base_(arg).Duration)
           IN  IF arg.type = "Swimming"
               THEN FEq(info.Speed,
                        FDiv(FDiv(FromInt(IMul(arg.value.LengthPool, arg.value.CountPool)),
                                  Lit(1000, 1)),
                             hours))
               ELSE FEq(info.Speed, FDiv(Training_distance(arg.value.Training), hours))

\* C5: the Distance of a Swimming summary is Action * LenStep / 1000; it is
\* the same for every LengthPool and CountPool, while the Speed is computed
\* from LengthPool * CountPool.
C5_SwimmingDistanceFromRepetitions ==
    (Called /\ arg.type = "Swimming")
        => LET t == arg.value.Training
           IN  /\ FEq(info.Distance, FDiv(FMul(FromInt(t.Action), t.LenStep), Lit(1000, 1)))
               /\ \A l \in LengthPools, c \in CountPools :
                     FEq(TrainingInfo(Value("Swimming", Swimming(t, l, c))).Distance,
                         info.Distance)
               /\ FSame(info.Speed,
                        FDiv(FDiv(FromInt(IntMul(arg.value.LengthPool, arg.value.CountPool)),
                                  Lit(1000, 1)),
                             Hours(t.Duration)))

C5_Witness ==
    /\ Called /\ arg.type = "Swimming" /\ ~ZeroDuration
    /\ ~FEq(info.Speed, FDiv(info.Distance, Hours(arg.value.Training.Duration)))

\* x lies within tol of y (all positive)
Within(x, y, tol) ==
    /\ FLeq(FMul(y, FAdd(Lit(1, 1), FMul(Lit(-1, 1), tol))), x)
    /\ FLeq(x, FMul(y, FAdd(Lit(1, 1), tol)))

RunningSample == Value("Running", running)

\* the Calories of a Running summary by the formula, on the sample's numbers
RunningSampleFormula ==
    FEq(info.Calories,
        FMul(FMul(FDiv(FMul(FAdd(FMul(Lit(18, 1), info.Speed), Lit(179, 100)), Lit(85, 1)),
                       Lit(1000, 1)),
                  Lit(1, 2)),
             Lit(60, 1)))

\* C6 as stated: the Running session of 85 kg, 5000 steps of 0.65 m and 30
\* minutes has distance 3.25, mean speed 6.5 and calories, by the formula,
\* within 0.5% of 585.18.
C6_RunningSampleAsStated ==
    (Called /\ arg = RunningSample)
        => /\ FEq(info.Distance, Lit(325, 100))
           /\ FEq(info.Speed, Lit(65, 10))
           /\ RunningSampleFormula
           /\ Within(info.Calories, Lit(58518, 100), Lit(5, 1000))

\* C6 amended: the same session has distance 3.25, mean speed 6.5 and
\* calories, by the formula, within 0.5% of 302.91.
C6_RunningSample ==
    (Called /\ arg = RunningSample)
        => /\ FEq(info.Distance, Lit(325, 100))
           /\ FEq(info.Speed, Lit(65, 10))
           /\ RunningSampleFormula
           /\ Within(info.Calories, Lit(30291, 100), Lit(5, 1000))

C6_Witness == Called /\ arg = RunningSample /\ FSign(info.Calories) > 0

WalkingSample == Value("Walking", walking)

\* the Calories of a Walking summary by the formula, on the sample's numbers
WalkingSampleFormula ==
    FEq(info.Calories,
        FMul(FMul(FAdd(FMul(Lit(35, 1000), Lit(85, 1)),
                       FMul(FMul(FDiv(Pow2(FMul(info.Speed, Lit(278, 1000))),
                                      FDiv(Lit(185, 1), Lit(100, 1))),
                                 Lit(29, 1000)),
                            Lit(85, 1))),
                  Lit(375, 100)),
             Lit(60, 1)))

WalkingSampleDistanceAndSpeed ==
    /\ FEq(info.Distance, Lit(13, 1))
    /\ FLeq(Lit(34666, 10000), info.Speed) /\ FLeq(info.Speed, Lit(34668, 10000))

\* C7 as stated: the Walking session of 85 kg, 185 cm, 20000 steps of 0.65 m
\* and 3h45m has distance 13.0, mean speed about 3.4667 and calories, by the
\* formula, between 385 and 395.
C7_WalkingSampleAsStated ==
    (Called /\ arg = WalkingSample)
        => /\ WalkingSampleDistanceAndSpeed
           /\ WalkingSampleFormula
           /\ FLeq(Lit(385, 1), info.Calories) /\ FLeq(info.Calories, Lit(395, 1))

\* C7 amended: the same session has distance 13.0, mean speed about 3.4667
\* and calories, by the formula, between 945 and 950.
C7_WalkingSample ==
    (Called /\ arg = WalkingSample)
        => /\ WalkingSampleDistanceAndSpeed
           /\ WalkingSampleFormula
           /\ FLeq(Lit(945, 1), info.Calories) /\ FLeq(info.Calories, Lit(950, 1))

C7_Witness == Called /\ arg = WalkingSample /\ FSign(info.Calories) > 0

SampleOrder == <<"Swimming", "Walking", "Running">>
FieldOrder  == <<"Training type", "Duration", "Distance", "Avg. speed", "Calories burned">>

\* C8: main prints exactly three blocks, for Swimming, Walking and Running
\* in this order, none twice and none skipped, each with the fields type,
\* duration, distance, average speed, calories in this order.
C8_ThreeBlocksInOrder ==
    /\ pc \in 0..3
    /\ Len(stdout) = pc
    /\ \A i \in 1..Len(stdout) :
          /\ Len(stdout[i]) = 6
          /\ stdout[i][1].value.text = SampleOrder[i]
          /\ \A j \in 1..5 : stdout[i][j].label = FieldOrder[j]
          /\ stdout[i][6] = EmptyLine

C8_Witness == pc = 3 /\ Len(stdout) = 3 /\ stdout[3][1].value.text = "Running"

\* C9: only Running, Walking and Swimming implement CaloriesCalculator: a
\* value that was passed to ReadData is of one of these three types, never
\* of the shared base type.
C9_OnlyTheThreeVariants == Called => arg.type \in Variants

\* C10: for a session of any of the three variants, the summary has the
\* Calories of the variant's own Calories, the type label and the duration of
\* the session, and the Speed of the variant's own meanSpeed.
C10_SummaryOfVariant ==
    (Called /\ arg.type \in Variants)
        => LET v == arg.value
           IN  /\ info.TrainingType = v.Training.TrainingType
               /\ info.Duration = v.Training.Duration
               /\ FSame(info.Calories, Calories(arg))
               /\ FSame(info.Speed,
                        IF arg.type = "Swimming" THEN Swimming_meanSpeed(v)
                                                 ELSE Training_meanSpeed(v.Training))

C10_Witness ==
    /\ Called /\ arg.type = "Running"
    /\ ~FEq(info.Calories, Training_Calories(arg.value.Training))

====
